---- MODULE Spec2Model ----
(***************************************************************************)
(* gpu-monitor: the polling-and-parsing pipeline of                        *)
(* src/src/gpu_monitor/monitor.py.                                         *)
(*                                                                         *)
(* Text is modelled as a sequence of tokens: a token is a word (an atomic  *)
(* run of non-blank, non-comma characters such as "42" or "train.py"), a   *)
(* comma ",", a blank " " or a newline "\n".  str.splitlines, str.strip,   *)
(* str.split(",") and str.split() are computed on these sequences as       *)
(* Python computes them on characters; int() is a table on numeral words.  *)
(***************************************************************************)
EXTENDS Integers, Sequences, FiniteSets, TLC

\* ------------------------------------------------------------------ text

IsSpace(t) == t \in {" ", "\n"}

RECURSIVE LStrip(_)
LStrip(s) ==
    IF s # <<>> /\ IsSpace(Head(s)) THEN LStrip(Tail(s)) ELSE s

RECURSIVE RStrip(_)
RStrip(s) ==
    IF s # <<>> /\ IsSpace(s[Len(s)]) THEN RStrip(SubSeq(s, 1, Len(s) - 1)) ELSE s

\* str.strip(): leading and trailing whitespace removed
Strip(s) == RStrip(LStrip(s))

\* first position of token sep in s, 0 when absent
RECURSIVE IndexOf(_, _, _)
IndexOf(s, sep, i) ==
    IF i > Len(s) THEN 0
    ELSE IF s[i] = sep THEN i
    ELSE IndexOf(s, sep, i + 1)

\* str.split(sep): n separators give n + 1 pieces, empty pieces kept
RECURSIVE SplitOn(_, _)
SplitOn(s, sep) ==
    LET i == IndexOf(s, sep, 1)
    IN  IF i = 0 THEN <<s>>
        ELSE <<SubSeq(s, 1, i - 1)>> \o SplitOn(SubSeq(s, i + 1, Len(s)), sep)

\* str.splitlines(): as split on newline, without the empty piece after a
\* final newline and with no piece at all for the empty text
SplitLines(s) ==
    IF s = <<>> THEN <<>>
    ELSE LET p == SplitOn(s, "\n")
         IN  IF p[Len(p)] = <<>> THEN SubSeq(p, 1, Len(p) - 1) ELSE p

\* str.split(): the words between runs of whitespace
RECURSIVE SplitWs(_)
SplitWs(s) ==
    IF s = <<>> THEN <<>>
    ELSE IF IsSpace(Head(s)) THEN SplitWs(Tail(s))
    ELSE <<Head(s)>> \o SplitWs(Tail(s))

\* [x.strip() for x in pieces]
StripEach(pieces) == [i \in 1..Len(pieces) |-> Strip(pieces[i])]

\* the words int() accepts, with their values
IntTable ==
    [w \in {"0", "1", "42", "97", "512", "555", "777", "1024", "16384", "-3"} |->
        CASE w = "0" -> 0
          [] w = "1" -> 1
          [] w = "42" -> 42
          [] w = "97" -> 97
          [] w = "512" -> 512
          [] w = "555" -> 555
          [] w = "777" -> 777
          [] w = "1024" -> 1024
          [] w = "16384" -> 16384
          [] w = "-3" -> 0 - 3]

\* int(field) raises ValueError unless the stripped field is one numeral
IsInt(field) == Len(field) = 1 /\ field[1] \in DOMAIN IntTable

IntOf(field) == IntTable[field[1]]

\* ---------------------------------------------------------------- parser

\* the filter "if ln.strip()"
RECURSIVE DropBlank(_)
DropBlank(lines) ==
    IF lines = <<>> THEN <<>>
    ELSE IF Head(lines) = <<>> THEN DropBlank(Tail(lines))
    ELSE <<Head(lines)>> \o DropBlank(Tail(lines))

\* mutant: blank lines are dropped but the lines kept are not stripped
NonBlankLinesUnstripped(output) ==
    SelectSeq(SplitLines(output), LAMBDA ln : Strip(ln) # <<>>)

\* monitor.py line 34
NonBlankLines(output) == DropBlank(StripEach(SplitLines(output)))

Separator == <<"---">>

\* monitor.py lines 37-48: the scan with the in_process_section flag
RECURSIVE ScanLines(_, _, _, _, _)
ScanLines(lines, i, inProc, gl, pl) ==
    IF i > Len(lines) THEN [gpu_lines |-> gl, process_lines |-> pl]
    ELSE IF lines[i] = Separator THEN ScanLines(lines, i + 1, TRUE, gl, pl)
    ELSE IF inProc THEN ScanLines(lines, i + 1, inProc, gl, Append(pl, lines[i]))
    ELSE ScanLines(lines, i + 1, inProc, Append(gl, lines[i]), pl)

\* monitor.py lines 53 and 86
Fields(ln) == StripEach(SplitOn(ln, ","))

\* monitor.py lines 53-64: does a device line survive
GpuLineOk(ln) ==
    LET parts == Fields(ln)
    IN  /\ Len(parts) >= 6
        /\ IsInt(parts[1])
        /\ IsInt(parts[4])
        /\ IsInt(parts[5])
        /\ IsInt(parts[6])

\* mutant: the two memory columns are taken in the other order
GpuRecordSwapped(ln) ==
    LET parts == Fields(ln)
    IN  [index |-> IntOf(parts[1]),
         name |-> parts[2],
         bus_id |-> parts[3],
         utilization_gpu |-> IntOf(parts[4]),
         memory_total_mib |-> IntOf(parts[6]),
         memory_used_mib |-> IntOf(parts[5])]

\* monitor.py lines 65-72
GpuRecord(ln) ==
    LET parts == Fields(ln)
    IN  [index |-> IntOf(parts[1]),
         name |-> parts[2],
         bus_id |-> parts[3],
         utilization_gpu |-> IntOf(parts[4]),
         memory_total_mib |-> IntOf(parts[5]),
         memory_used_mib |-> IntOf(parts[6])]

\* mutant: one malformed device line fails the whole device section
ParseGpusAllOrNothing(gpu_lines) ==
    IF \A k \in 1..Len(gpu_lines) : GpuLineOk(gpu_lines[k])
    THEN [k \in 1..Len(gpu_lines) |-> GpuRecord(gpu_lines[k])]
    ELSE <<>>

\* monitor.py lines 51-72: the loop over gpu_lines
RECURSIVE ParseGpus(_)
ParseGpus(gpu_lines) ==
    IF gpu_lines = <<>> THEN <<>>
    ELSE IF GpuLineOk(Head(gpu_lines))
         THEN <<GpuRecord(Head(gpu_lines))>> \o ParseGpus(Tail(gpu_lines))
         ELSE ParseGpus(Tail(gpu_lines))

\* monitor.py lines 79-81 and 95: the dict built by successive assignment
\* keeps, for a bus_id, the record assigned last
RECURSIVE LookupFrom(_, _, _)
LookupFrom(gpus, bus, i) ==
    IF i = 0 THEN 0
    ELSE IF gpus[i].bus_id = bus THEN i
    ELSE LookupFrom(gpus, bus, i - 1)

\* mutant: for a bus id, the record met first is kept
GpuLookupFirst(gpus, bus) ==
    IF \E k \in 1..Len(gpus) : gpus[k].bus_id = bus
    THEN CHOOSE k \in 1..Len(gpus) :
            gpus[k].bus_id = bus /\ \A m \in 1..(k - 1) : gpus[m].bus_id # bus
    ELSE 0

GpuLookup(gpus, bus) == LookupFrom(gpus, bus, Len(gpus))

NotSupported == <<"[Not Supported]">>

\* monitor.py line 92
MemFieldOk(f) == f = <<>> \/ f = NotSupported \/ IsInt(f)

UsedMemory(f) == IF f # <<>> /\ f # NotSupported THEN IntOf(f) ELSE 0

\* monitor.py lines 86-107: does a process line yield a record
ProcLineOk(gpus, ln) ==
    LET parts == Fields(ln)
    IN  /\ Len(parts) >= 4
        /\ IsInt(parts[2])
        /\ MemFieldOk(parts[4])
        /\ GpuLookup(gpus, parts[1]) # 0

\* mutant: the memory size is copied from the first device of the list
UserRecordOfFirstGpu(gpus, ln) ==
    LET parts == Fields(ln)
        gpu == gpus[GpuLookup(gpus, parts[1])]
    IN  [gpu_id |-> gpu.index,
         pid |-> IntOf(parts[2]),
         user |-> "process",
         command |-> parts[3],
         memory_used_mib |-> UsedMemory(parts[4]),
         gpu_memory_total_mib |-> gpus[1].memory_total_mib]

\* monitor.py lines 98-105
UserRecord(gpus, ln) ==
    LET parts == Fields(ln)
        gpu == gpus[GpuLookup(gpus, parts[1])]
    IN  [gpu_id |-> gpu.index,
         pid |-> IntOf(parts[2]),
         user |-> "process",
         command |-> parts[3],
         memory_used_mib |-> UsedMemory(parts[4]),
         gpu_memory_total_mib |-> gpu.memory_total_mib]

\* monitor.py lines 76-107: the loop over process_lines
RECURSIVE ParseUsers(_, _)
ParseUsers(gpus, process_lines) ==
    IF process_lines = <<>> THEN <<>>
    ELSE IF ProcLineOk(gpus, Head(process_lines))
         THEN <<UserRecord(gpus, Head(process_lines))>> \o ParseUsers(gpus, Tail(process_lines))
         ELSE ParseUsers(gpus, Tail(process_lines))

\* monitor.py lines 29-109
parse_nvidia_smi_output(output) ==
    LET sec == ScanLines(NonBlankLines(output), 1, FALSE, <<>>, <<>>)
        gpus == ParseGpus(sec.gpu_lines)
    IN  [gpus |-> gpus, users |-> ParseUsers(gpus, sec.process_lines)]

\* ----------------------------------------------------------- environment

AllHosts == {"alpha", "beta", "gamma"}

\* bound: the clock stops advancing here
MaxClock == 2

\* subprocess timeout, monitor.py line 112 (timeout: int = 15)
Timeout == 15

\* workers of the default executor behind loop.run_in_executor(None, ...):
\* ThreadPoolExecutor() has min(32, os.cpu_count() + 4) of them; the model
\* scales the pool down with the host list
PoolSize == 2

\* what a host's GPU reports: name and bus id differ from host to host
GpuName(h) ==
    CASE h = "alpha" -> "TeslaA" [] h = "beta" -> "TeslaB" [] h = "gamma" -> "TeslaC"

BusId(h) ==
    CASE h = "alpha" -> "0000:0A:00.0"
      [] h = "beta" -> "0000:0B:00.0"
      [] h = "gamma" -> "0000:0C:00.0"

Login(h) ==
    CASE h = "alpha" -> "alice" [] h = "beta" -> "bob" [] h = "gamma" -> "carol"

\* one device line, the separator, one process line
GoodText(h) ==
    <<"0", ",", " ", GpuName(h), ",", " ", BusId(h), ",", " ", "42", ",", " ",
      "16384", ",", " ", "1024", "\n",
      "---", "\n",
      BusId(h), ",", " ", "555", ",", " ", "train.py", ",", " ", "512", "\n">>

\* a partial, damaged output: a banner line, a device line with a
\* non-integer utilisation, a surviving device line, a blank line, a padded
\* separator, a process line of an unknown bus id, one of three fields, one
\* with a non-integer pid, and a surviving one without a memory figure
MessyText(h) ==
    <<"NVIDIA-SMI", " ", "has", " ", "failed", "\n",
      "0", ",", GpuName(h), ",", BusId(h), ",", "N/A", ",", "16384", ",", "1024", "\n",
      " ", "1", ",", " ", GpuName(h), ",", BusId(h), ",", "97", ",", "16384", ",", "512", " ", "\n",
      " ", "\n",
      " ", "---", " ", "\n",
      "0000:FF:00.0", ",", "555", ",", "train.py", ",", "512", "\n",
      BusId(h), ",", "555", ",", "train.py", "\n",
      BusId(h), ",", "N/A", ",", "train.py", ",", "512", "\n",
      BusId(h), ",", " ", "777", ",", " ", "python", ",", " ", "[Not Supported]", "\n">>

\* device lines only: the second nvidia-smi printed nothing
NoProcText(h) ==
    <<"0", ",", " ", GpuName(h), ",", " ", BusId(h), ",", " ", "0", ",", " ",
      "16384", ",", " ", "0", "\n", "---", "\n">>

SshStderr(h) == <<"ssh:", " ", "connect", " ", "to", " ", "host", " ", h>>

RunTimeout == [kind |-> "timeout"]

RunExit(rc, out, err) == [kind |-> "exit", returncode |-> rc, stdout |-> out, stderr |-> err]

\* monitor.py lines 128-136: what subprocess.run of the main ssh command
\* against host h can come back with, by the host's behaviour
MainOutcomes(h, behaviour) ==
    LET failing == {RunTimeout, RunExit(255, <<>>, SshStderr(h))}
        healthy == {RunExit(0, GoodText(h), <<>>)}
        partial == {RunExit(1, MessyText(h), SshStderr(h)),
                    RunExit(0, NoProcText(h), <<>>),
                    RunExit(0, <<>>, <<>>),
                    RunExit(1, <<" ", "\n">>, SshStderr(h))}
    IN  CASE behaviour = "down" -> failing
          [] behaviour = "up" -> healthy
          [] behaviour = "flaky" -> failing \cup healthy \cup partial

\* monitor.py lines 167-175: what subprocess.run of the ps command against
\* host h can come back with
PsOutcomes(h, behaviour) ==
    LET owner == {RunExit(0, <<" ", "555", " ", Login(h), "\n">>, <<>>)}
        other == {RunTimeout,
                  RunExit(255, <<"555", " ", Login(h), "\n">>, SshStderr(h)),
                  RunExit(0, <<>>, <<>>),
                  RunExit(0, <<"Last", " ", "login", "\n", "555", " ", Login(h), "\n">>, <<>>),
                  RunExit(0, <<"555", " ", "root", "\n", "\n", "1", "\n",
                               "555", " ", Login(h), " ", "x", "\n">>, <<>>)}
    IN  CASE behaviour = "up" -> owner
          [] behaviour = "down" -> owner
          [] behaviour = "flaky" -> owner \cup other

\* --- raw texts built line by line

\* bound: lines of the device and process sections of a built text together
MaxLines == 3

\* bound: lines of a built ps output
MaxPsLines == 3

BusA == "0000:0A:00.0"

BusB == "0000:0B:00.0"

\* device lines: a well-formed one; a padded one of the same bus id with
\* another index and memory size; one of another bus id; one whose
\* utilisation is no integer (a line of fewer than six fields is any process
\* line of a text without separator)
DevGood == <<"0", ",", " ", "TeslaA", ",", " ", BusA, ",", " ", "42", ",", " ",
             "16384", ",", " ", "1024">>

DevTwin == <<" ", "1", ",", "TeslaA", ",", BusA, ",", "97", ",", "1024", ",", "512", " ">>

DevOther == <<"1", ",", "TeslaB", ",", BusB, ",", "0", ",", "512", ",", "0">>

DevBadInt == <<"0", ",", "TeslaA", ",", BusA, ",", "N/A", ",", "16384", ",", "1024">>

BlankLine == <<" ">>

DevLines == {DevGood, DevTwin, DevOther, DevBadInt}

\* process lines: a well-formed one; one on the other bus without a memory
\* figure; one with an empty memory field; one with pid 0 and a negative
\* memory figure; one of a bus id no device has; one of three fields; one
\* whose pid is no integer; one whose memory figure is no integer
ProcGood == <<BusA, ",", " ", "555", ",", " ", "train.py", ",", " ", "512">>

ProcNoMem == <<BusB, ",", "777", ",", "python", ",", "[Not Supported]">>

ProcEmptyMem == <<BusA, ",", "777", ",", "python", ",", " ">>

ProcZeroPid == <<BusA, ",", "0", ",", "idle", ",", "-3">>

ProcUnknownBus == <<"0000:FF:00.0", ",", "555", ",", "train.py", ",", "512">>

ProcShort == <<BusA, ",", "555", ",", "train.py">>

ProcBadPid == <<BusA, ",", "N/A", ",", "train.py", ",", "512">>

ProcBadMem == <<BusA, ",", "555", ",", "train.py", ",", "N/A">>

ProcLines == {ProcGood, ProcNoMem, ProcEmptyMem, ProcZeroPid, ProcUnknownBus,
              ProcShort, ProcBadPid, ProcBadMem}

\* what stands between the sections: nothing, the separator (monitor.py
\* line 118: echo '---'), a padded separator after a blank line, two
\* separators
SepLines ==
    {<<>>, <<Separator>>, <<BlankLine, <<" ", "---", " ">>>>, <<Separator, Separator>>}

\* ps lines: pid and user; padded; the same pid again with a third word; a
\* pid alone; a banner of two words; a blank line
PsAlice == <<"555", " ", "alice">>

PsBob == <<" ", "777", " ", "bob">>

PsRoot == <<"555", " ", "root", " ", "x">>

PsBare == <<"555">>

PsBanner == <<"Last", " ", "login">>

PsPool == {PsAlice, PsBob, PsRoot, PsBare, PsBanner, BlankLine}

\* the sequences over S of length at most n
SeqsUpTo(S, n) == UNION {[1..k -> S] : k \in 0..n}

\* the lines, each ended by a newline
RECURSIVE JoinLines(_)
JoinLines(lines) ==
    IF lines = <<>> THEN <<>> ELSE Head(lines) \o <<"\n">> \o JoinLines(Tail(lines))

\* a device, the separator and two processes of pids 555 and 777
TwoProcText == JoinLines(<<DevGood, Separator, ProcGood, ProcEmptyMem>>)

\* one host answering from its script
EchoConfig == [hosts |-> <<"alpha">>, behaviour |-> [h \in {"alpha"} |-> "echo"]]

\* the startup host lists and host behaviours explored: one host that can
\* answer in every way, and a host that is down beside one that is up
Configs ==
    {[hosts |-> <<"alpha">>, behaviour |-> [h \in {"alpha"} |-> "flaky"]],
     [hosts |-> <<"alpha", "beta">>,
      behaviour |-> [h \in {"alpha", "beta"} |-> IF h = "alpha" THEN "down" ELSE "up"]]}

\* more hosts than the pool has workers
PoolConfig ==
    [hosts |-> <<"beta", "gamma", "alpha">>,
     behaviour |-> [h \in AllHosts |-> IF h = "gamma" THEN "down" ELSE "up"]]

\* a host that is down for good beside one that is up
LiveConfig ==
    [hosts |-> <<"alpha", "beta">>,
     behaviour |-> [h \in {"alpha", "beta"} |-> IF h = "alpha" THEN "down" ELSE "up"]]

\* ------------------------------------------------------ owner resolution

\* monitor.py line 180: ps_completed.stdout.strip().split('\n')
PsLines(stdout) == SplitOn(Strip(stdout), "\n")

\* monitor.py line 179
PsUsable(p) == p.returncode = 0 /\ Strip(p.stdout) # <<>>

\* monitor.py lines 167-183 under the try: subprocess.run raises
\* TimeoutExpired, or int(parts[0]) raises ValueError on a line of two or
\* more words whose first word is no integer
PsRaises(p) ==
    \/ p.kind = "timeout"
    \/ /\ PsUsable(p)
       /\ \E i \in 1..Len(PsLines(p.stdout)) :
            LET parts == SplitWs(PsLines(p.stdout)[i])
            IN  Len(parts) >= 2 /\ ~IsInt(<<parts[1]>>)

\* monitor.py lines 178-183 and 187: pid_to_user.get(pid, 'unknown'), the
\* dict holding for a pid the user assigned last
RECURSIVE OwnerFrom(_, _, _)
OwnerFrom(lines, pid, i) ==
    IF i = 0 THEN "unknown"
    ELSE LET parts == SplitWs(lines[i])
         IN  IF Len(parts) >= 2 /\ IntOf(<<parts[1]>>) = pid THEN parts[2]
             ELSE OwnerFrom(lines, pid, i - 1)

\* mutant: only the first line of the ps output is read
OwnerOfFirstLine(p, pid) ==
    IF PsUsable(p) THEN OwnerFrom(PsLines(p.stdout), pid, 1)
    ELSE "unknown"

Owner(p, pid) ==
    IF PsUsable(p) THEN OwnerFrom(PsLines(p.stdout), pid, Len(PsLines(p.stdout)))
    ELSE "unknown"

\* mutant: a failed lookup sets every user to 'unknown'
ResolveUsersOrUnknown(users, p) ==
    [i \in 1..Len(users) |->
        [users[i] EXCEPT !.user = IF PsRaises(p) THEN "unknown" ELSE Owner(p, users[i].pid)]]

\* monitor.py lines 166-191: the users of result after the owner lookup
\* came back with p
ResolveUsers(users, p) ==
    IF PsRaises(p) THEN users
    ELSE [i \in 1..Len(users) |-> [users[i] EXCEPT !.user = Owner(p, users[i].pid)]]

\* ---------------------------------------------------------------- state

VARIABLES
    servers,    \* cli.main: args.servers, <<>> for None (--servers not given)
    config_hosts, \* config.load_config: config["hosts"]
    override_hosts, \* the module global _override_hosts, <<>> for None
    phase,      \* the process: "main", "run_server", "serving" or "failed"
    hosts,      \* startup_pollers: the hosts a task was created for, in order
    behaviour,  \* how each remote host answers
    reply,      \* what an "echo" host prints for the two remote commands
    pc,         \* poll_host_loop of each host: "top", "await" or "sleep"
    job,        \* run_nvidia_smi_via_ssh of each host in the executor
    queue,      \* the executor's work queue
    latest,     \* the module-level dict host_alias -> payload
    keyOrder,   \* insertion order of the keys of latest
    clock,      \* time.time()
    resp,       \* body of the last /metrics response
    pollStart,  \* history: the clock when the host's cycle entered Polling
    prevKind,   \* history: what the host's last write replaced ("never": the
                \* host has completed no cycle, "none": it created the entry)
    inflight,   \* history: polls of the host submitted and not yet resumed
    spawned     \* history: remote commands the host's current cycle has started

\* the process start-up and the environment, untouched by the pollers
boot == <<servers, config_hosts, override_hosts, phase, reply>>

vars == <<boot, hosts, behaviour, pc, job, queue, latest, keyOrder, clock, resp,
          pollStart, prevKind, inflight, spawned>>

HostSet == {hosts[i] : i \in 1..Len(hosts)}

OkKeys == {"host_alias", "timestamp", "gpus", "users"}

ErrKeys == {"host_alias", "timestamp", "error"}

IsOk(e) == DOMAIN e = OkKeys

IsErr(e) == DOMAIN e = ErrKeys

\* worker threads occupied by a run
Busy == Cardinality({h \in HostSet : job[h].st \in {"ssh", "ps"}})

\* a host that is not an "echo" host has nothing scripted
NoReply == [out |-> <<>>, ps |-> <<>>, ps_status |-> 0]

\* monitor.py lines 209-216, after one task per host of the list c.hosts is
\* created, the hosts answering as c.behaviour and r say
StartedWith(c, r) ==
    /\ servers = <<>>
    /\ config_hosts = c.hosts
    /\ override_hosts = <<>>
    /\ phase = "serving"
    /\ reply = r
    /\ hosts = c.hosts
    /\ behaviour = c.behaviour
    /\ pc = [h \in HostSet |-> "top"]
    /\ job = [h \in HostSet |-> [st |-> "none"]]
    /\ queue = <<>>
    /\ latest = <<>>
    /\ keyOrder = <<>>
    /\ clock = 0
    /\ resp = <<>>
    /\ pollStart = [h \in HostSet |-> 0]
    /\ prevKind = [h \in HostSet |-> "never"]
    /\ inflight = [h \in HostSet |-> 0]
    /\ spawned = [h \in HostSet |-> [main |-> 0, ps |-> 0]]

Started(c) == StartedWith(c, [h \in {c.hosts[i] : i \in 1..Len(c.hosts)} |-> NoReply])

Init == \E c \in Configs : Started(c)

\* monitor.py lines 128-136: an "echo" host prints its scripted text for the
\* main command, and ssh exits with status 0
EchoMain(h) == {RunExit(0, reply[h].out, <<>>)}

\* monitor.py lines 167-175: an "echo" host prints its scripted text for the
\* ps command, and ssh exits with the scripted status (nonzero: the
\* connection was lost at the end)
EchoPs(h) ==
    {RunExit(reply[h].ps_status, reply[h].ps,
             IF reply[h].ps_status = 0 THEN <<>> ELSE SshStderr(h))}

\* monitor.py lines 128-136: what the main command against h can come back with
MainReplies(h) ==
    IF behaviour[h] = "echo" THEN EchoMain(h) ELSE MainOutcomes(h, behaviour[h])

\* monitor.py lines 167-175: what the ps command against h can come back with
PsReplies(h) ==
    IF behaviour[h] = "echo" THEN EchoPs(h) ELSE PsOutcomes(h, behaviour[h])

\* ------------------------------------------------------------- the poller

\* mutant: the call is submitted again without awaiting the one in flight
AtLoopTopOrAwaiting(h) == pc[h] \in {"top", "await"}

\* monitor.py lines 198-202: the loop is at its top
AtLoopTop(h) == pc[h] = "top"

\* monitor.py line 202: the host alias handed to run_nvidia_smi_via_ssh
QueryTarget(h) == h

\* monitor.py line 202: loop.run_in_executor(None, run_nvidia_smi_via_ssh,
\* host_alias) puts the call on the executor's queue and awaits its future
Submit(h) ==
    /\ AtLoopTop(h)
    /\ pc' = [pc EXCEPT ![h] = "await"]
    /\ job' = [job EXCEPT ![h] = [st |-> "queued", host_alias |-> QueryTarget(h)]]
    /\ queue' = Append(queue, h)
    /\ pollStart' = [pollStart EXCEPT ![h] = clock]
    /\ inflight' = [inflight EXCEPT ![h] = @ + 1]
    /\ spawned' = [spawned EXCEPT ![h] = [main |-> 0, ps |-> 0]]
    /\ UNCHANGED <<boot, hosts, behaviour, latest, keyOrder, clock, resp, prevKind>>

\* a worker thread of the pool is idle
WorkerFree == Busy < PoolSize

\* the executor: an idle worker takes the oldest queued call and starts the
\* main ssh command (monitor.py lines 118-136)
Dispatch(h) ==
    /\ queue # <<>>
    /\ Head(queue) = h
    /\ WorkerFree
    /\ queue' = Tail(queue)
    /\ job' = [job EXCEPT ![h] = [st |-> "ssh", host_alias |-> job[h].host_alias]]
    /\ spawned' = [spawned EXCEPT ![h].main = @ + 1]
    /\ UNCHANGED <<boot, hosts, behaviour, pc, latest, keyOrder, clock, resp,
                   pollStart, prevKind, inflight>>

\* monitor.py line 138: str of the RuntimeError raised on TimeoutExpired,
\* whose text names the command line and so the host
TimeoutError(target) == [tag |-> "ssh timeout", cmd_host |-> target, seconds |-> Timeout]

\* mutant: a failed command is reported under the tag of a timeout
ExitErrorAsTimeout(o) == [tag |-> "ssh timeout", returncode |-> o.returncode, stderr |-> Strip(o.stderr)]

\* monitor.py line 146
ExitError(o) == [tag |-> "ssh returned code", returncode |-> o.returncode, stderr |-> Strip(o.stderr)]

\* mutant: every nonzero exit status is an error (check=True)
MainFailsOnAnyError(o) == o.kind = "timeout" \/ o.returncode # 0

\* monitor.py lines 137-146: the main command failed
MainFails(o) ==
    \/ o.kind = "timeout"
    \/ o.returncode # 0 /\ Strip(o.stdout) = <<>>

MainError(target, o) ==
    IF o.kind = "timeout" THEN TimeoutError(target) ELSE ExitError(o)

\* mutant: the owner lookup is issued after every main command that did not
\* fail, whether or not a process was parsed
AfterMainAlwaysPs(target, o) ==
    IF MainFails(o)
    THEN [st |-> "done", host_alias |-> target, main |-> o, exc |-> MainError(target, o)]
    ELSE [st |-> "ps", host_alias |-> target, main |-> o,
          result |-> parse_nvidia_smi_output(Strip(o.stdout))]

\* monitor.py lines 127-165: the state of the run once the main command
\* came back with o
\* (main and ps keep, as history, what the two commands came back with)
AfterMain(target, o) ==
    IF MainFails(o)
    THEN [st |-> "done", host_alias |-> target, main |-> o, exc |-> MainError(target, o)]
    ELSE LET result == parse_nvidia_smi_output(Strip(o.stdout))
         IN  IF result.users = <<>>
             THEN [st |-> "done", host_alias |-> target, main |-> o, result |-> result,
                   ps |-> [kind |-> "skipped"]]
             ELSE [st |-> "ps", host_alias |-> target, main |-> o, result |-> result]

\* monitor.py lines 127-165: the main ssh command ends
SshFinish(h) ==
    /\ job[h].st = "ssh"
    /\ \E o \in MainReplies(job[h].host_alias) :
          job' = [job EXCEPT ![h] = AfterMain(job[h].host_alias, o)]
    /\ spawned' = [spawned EXCEPT ![h].ps = IF job'[h].st = "ps" THEN @ + 1 ELSE @]
    /\ UNCHANGED <<boot, hosts, behaviour, pc, queue, latest, keyOrder, clock, resp,
                   pollStart, prevKind, inflight>>

\* monitor.py lines 166-193: the state of the run once ps came back with p
AfterPs(j, p) ==
    [st |-> "done", host_alias |-> j.host_alias, main |-> j.main,
     result |-> [j.result EXCEPT !.users = ResolveUsers(j.result.users, p)],
     ps |-> p]

\* monitor.py lines 166-193: the ps command ends and the run returns
PsFinish(h) ==
    /\ job[h].st = "ps"
    /\ \E p \in PsReplies(job[h].host_alias) :
          job' = [job EXCEPT ![h] = AfterPs(job[h], p)]
    /\ UNCHANGED <<boot, hosts, behaviour, pc, queue, latest, keyOrder, clock, resp,
                   pollStart, prevKind, inflight, spawned>>

\* mutant: every poller writes under the key of the first host of the list
CacheKeyFirst(h) == hosts[1]

\* monitor.py lines 203 and 205: the key written
CacheKey(h) == h

\* mutant: the time is taken before the query is issued
StampAtStart(h) == pollStart[h]

\* monitor.py lines 203 and 205: time.time() when the entry is built
Stamp(h) == clock

\* monitor.py line 203: {"host_alias": ..., "timestamp": ..., **result}
OkEntry(h, result) ==
    [host_alias |-> h, timestamp |-> Stamp(h), gpus |-> result.gpus, users |-> result.users]

\* monitor.py line 205
ErrEntry(h, e) == [host_alias |-> h, timestamp |-> Stamp(h), error |-> e]

\* the payload built from the finished run
NewEntry(h) ==
    IF "exc" \in DOMAIN job[h] THEN ErrEntry(h, job[h].exc) ELSE OkEntry(h, job[h].result)

\* mutant: d[k].update(v), the fields of the old entry that v lacks survive
DictMerge(d, k, v) ==
    [x \in DOMAIN d \cup {k} |->
        IF x # k THEN d[x]
        ELSE IF k \notin DOMAIN d THEN v
        ELSE [f \in DOMAIN d[k] \cup DOMAIN v |-> IF f \in DOMAIN v THEN v[f] ELSE d[k][f]]]

\* d[k] = v on a dict
DictSet(d, k, v) == [x \in DOMAIN d \cup {k} |-> IF x = k THEN v ELSE d[x]]

KindOf(d, k) ==
    IF k \notin DOMAIN d THEN "none" ELSE IF IsErr(d[k]) THEN "err" ELSE "ok"

\* mutant: the result is taken as soon as the main command is parsed,
\* before the owner lookup has ended
RunParsed(h) == pc[h] = "await" /\ job[h].st \in {"ps", "done"}

\* monitor.py lines 202-206: the awaited future is complete
RunReturned(h) == pc[h] = "await" /\ job[h].st = "done"

\* monitor.py lines 202-206: the await returns or raises, the entry is
\* assigned in one step of the event loop, and the task goes to sleep
Resume(h) ==
    /\ RunReturned(h)
    /\ latest' = DictSet(latest, CacheKey(h), NewEntry(h))
    /\ keyOrder' = IF CacheKey(h) \in DOMAIN latest THEN keyOrder ELSE Append(keyOrder, CacheKey(h))
    /\ prevKind' = [prevKind EXCEPT ![h] = KindOf(latest, CacheKey(h))]
    /\ pc' = [pc EXCEPT ![h] = "sleep"]
    /\ inflight' = [inflight EXCEPT ![h] = @ - 1]
    /\ UNCHANGED <<boot, hosts, behaviour, job, queue, clock, resp, pollStart, spawned>>

\* mutant: the loop ends after a failed cycle
SleepingAfterSuccess(h) == pc[h] = "sleep" /\ IsOk(latest[h])

\* monitor.py lines 198 and 206: the task sleeps and the loop goes on
Sleeping(h) == pc[h] = "sleep"

\* monitor.py line 206: asyncio.sleep(poll_interval) is over
Wake(h) ==
    /\ Sleeping(h)
    /\ pc' = [pc EXCEPT ![h] = "top"]
    /\ UNCHANGED <<boot, hosts, behaviour, job, queue, latest, keyOrder, clock, resp,
                   pollStart, prevKind, inflight, spawned>>

\* time passes
Tick ==
    /\ clock < MaxClock
    /\ clock' = clock + 1
    /\ UNCHANGED <<boot, hosts, behaviour, pc, job, queue, latest, keyOrder, resp,
                   pollStart, prevKind, inflight, spawned>>

\* list(latest.values()): the values in insertion order of their keys
Values(d, order) == [i \in 1..Len(order) |-> d[order[i]]]

\* mutant: the handler waits while a remote command is running
CanServeWhenIdle == \A h \in HostSet : job[h].st \notin {"ssh", "ps"}

\* the /metrics handler can run
CanServe == TRUE

\* monitor.py lines 219-221
get_metrics ==
    /\ CanServe
    /\ resp' = Values(latest, keyOrder)
    /\ UNCHANGED <<boot, hosts, behaviour, pc, job, queue, latest, keyOrder, clock,
                   pollStart, prevKind, inflight, spawned>>

\* the steps of host h's task on the event loop and of the executor for it
LoopStep(h) ==
    \/ Submit(h)
    \/ Dispatch(h)
    \/ Resume(h)
    \/ Wake(h)

\* a remote command of host h's run ends
RemoteStep(h) ==
    \/ SshFinish(h)
    \/ PsFinish(h)

\* a remote command of host h's run is running
RemoteRunning(h) == job[h].st \in {"ssh", "ps"}

Next ==
    \/ \E h \in HostSet : Submit(h)
    \/ \E h \in HostSet : Dispatch(h)
    \/ \E h \in HostSet : SshFinish(h)
    \/ \E h \in HostSet : PsFinish(h)
    \/ \E h \in HostSet : Resume(h)
    \/ \E h \in HostSet : Wake(h)
    \/ Tick
    \/ get_metrics

Spec == Init /\ [][Next]_vars

\* the pollers alone, with more hosts than workers
PoolInit == Started(PoolConfig)

PoolNext ==
    \/ \E h \in HostSet : Submit(h)
    \/ \E h \in HostSet : Dispatch(h)
    \/ \E h \in HostSet : SshFinish(h)
    \/ \E h \in HostSet : PsFinish(h)
    \/ \E h \in HostSet : Resume(h)
    \/ \E h \in HostSet : Wake(h)

PoolSpec == PoolInit /\ [][PoolNext]_vars

\* the pollers and the clock under the fairness of the event loop and the
\* worker threads: a step of a task that stays possible is taken, and a
\* remote command does not run for ever (subprocess.run ends by its timeout
\* at the latest), which is weak fairness of RemoteStep, whose enabling
\* condition is RemoteRunning
LiveHosts == {"alpha", "beta"}

LiveInit == Started(LiveConfig)

LiveNext ==
    \/ \E h \in HostSet : Submit(h)
    \/ \E h \in HostSet : Dispatch(h)
    \/ \E h \in HostSet : SshFinish(h)
    \/ \E h \in HostSet : PsFinish(h)
    \/ \E h \in HostSet : Resume(h)
    \/ \E h \in HostSet : Wake(h)
    \/ Tick

LiveSpec ==
    /\ LiveInit
    /\ [][LiveNext]_vars
    /\ \A h \in LiveHosts : WF_vars(LoopStep(h))
    /\ \A h \in LiveHosts : []<>(~RemoteRunning(h)) \/ []<><<RemoteStep(h)>>_vars

\* the parser and the owner resolution on built texts: one "echo" host
\* whose main output is any text of at most MaxLines section lines, or whose
\* ps output is any text of at most MaxPsLines lines, followed through the
\* first cycle of its poller
ParseInit ==
    \/ \E d \in SeqsUpTo(DevLines, MaxLines) :
       \E s \in SepLines :
       \E p \in SeqsUpTo(ProcLines, MaxLines - Len(d)) :
          StartedWith(EchoConfig,
                      [h \in {"alpha"} |->
                          [out |-> JoinLines(d \o s \o p), ps |-> JoinLines(<<PsAlice>>),
                           ps_status |-> 0]])
    \/ \E q \in SeqsUpTo(PsPool, MaxPsLines) :
       \E rc \in {0, 255} :
          StartedWith(EchoConfig,
                      [h \in {"alpha"} |->
                          [out |-> TwoProcText, ps |-> JoinLines(q), ps_status |-> rc]])

ParseNext ==
    \/ \E h \in HostSet : Submit(h)
    \/ \E h \in HostSet : Dispatch(h)
    \/ \E h \in HostSet : SshFinish(h)
    \/ \E h \in HostSet : PsFinish(h)
    \/ \E h \in HostSet : Resume(h)

ParseSpec == ParseInit /\ [][ParseNext]_vars

\* ---------------------------------------------------------------- startup

\* bound: hosts on the command line and in the configuration file
MaxServers == 2

\* config.py line 73: def get_hosts() declares no parameter
GetHostsParams == 0

\* a call of get_hosts with the arguments args raises TypeError when they
\* are more than the parameters of its signature
GetHostsRaises(args) == Len(args) > GetHostsParams

\* config.py lines 73-76: the hosts of the configuration
get_hosts == config_hosts

\* cli.py lines 30-34: the process has parsed its command line, args.servers
\* being a non-empty list or None, and the configuration file names its hosts
StartInit ==
    /\ servers \in SeqsUpTo(AllHosts, MaxServers)
    /\ config_hosts \in SeqsUpTo(AllHosts, MaxServers)
    /\ override_hosts = <<>>
    /\ phase = "main"
    /\ reply = [h \in AllHosts |-> NoReply]
    /\ behaviour = [h \in AllHosts |-> "up"]
    /\ hosts = <<>>
    /\ pc = <<>>
    /\ job = <<>>
    /\ queue = <<>>
    /\ latest = <<>>
    /\ keyOrder = <<>>
    /\ clock = 0
    /\ resp = <<>>
    /\ pollStart = <<>>
    /\ prevKind = <<>>
    /\ inflight = <<>>
    /\ spawned = <<>>

\* cli.py line 34 and monitor.py lines 229-241: run_server(args.servers)
\* stores the list in the module global and starts uvicorn
run_server ==
    /\ phase = "main"
    /\ override_hosts' = servers
    /\ phase' = "run_server"
    /\ UNCHANGED <<servers, config_hosts, reply, hosts, behaviour, pc, job, queue,
                   latest, keyOrder, clock, resp, pollStart, prevKind, inflight, spawned>>

\* monitor.py lines 211-216: the startup handler; the call
\* get_hosts(_override_hosts) of line 213 passes one argument, and when it
\* raises the handler ends there, before any task is created
startup_pollers ==
    /\ phase = "run_server"
    /\ IF GetHostsRaises(<<override_hosts>>)
       THEN /\ phase' = "failed"
            /\ UNCHANGED <<hosts, pc, job, pollStart, prevKind, inflight, spawned>>
       ELSE LET hs == {get_hosts[i] : i \in 1..Len(get_hosts)}
            IN  /\ phase' = "serving"
                /\ hosts' = get_hosts
                /\ pc' = [h \in hs |-> "top"]
                /\ job' = [h \in hs |-> [st |-> "none"]]
                /\ pollStart' = [h \in hs |-> 0]
                /\ prevKind' = [h \in hs |-> "never"]
                /\ inflight' = [h \in hs |-> 0]
                /\ spawned' = [h \in hs |-> [main |-> 0, ps |-> 0]]
    /\ UNCHANGED <<servers, config_hosts, override_hosts, reply, behaviour, queue,
                   latest, keyOrder, clock, resp>>

\* the process from its command line to the end of the startup handler (no
\* step of a poller follows a handler that created no task)
StartNext ==
    \/ run_server
    \/ startup_pollers

StartSpec == StartInit /\ [][StartNext]_vars

\* ----------------------------------------------------------------- claims

\* the payload of entry e is data of host h: its devices carry h's GPU name
\* and bus id and its process owners are accounts of h, or its error text
\* names h in the command line or in the ssh diagnostics
PayloadOf(e, h) ==
    /\ IsOk(e) =>
          /\ \A i \in 1..Len(e.gpus) :
                e.gpus[i].name = <<GpuName(h)>> /\ e.gpus[i].bus_id = <<BusId(h)>>
          /\ \A i \in 1..Len(e.users) :
                e.users[i].user \in {Login(h), "root", "unknown", "process"}
    /\ IsErr(e) =>
          IF e.error.tag = "ssh timeout" THEN e.error.cmd_host = h
          ELSE e.error.stderr = SshStderr(h)

\* C1: isolation by key identity. Every cache entry stored under key h
\* carries host_alias h and a payload (gpus and users, or error) that is the
\* outcome of a query issued against h: every run in the executor for poller
\* h is a run against h whose commands were answered by h, and the entry a
\* poller has just written holds the payload of its own run.
C1_Isolation ==
    /\ \A h \in DOMAIN latest :
          /\ h \in HostSet
          /\ latest[h].host_alias = h
          /\ IsOk(latest[h]) \/ IsErr(latest[h])
          /\ PayloadOf(latest[h], h)
          /\ (pc[h] = "sleep" /\ IsOk(latest[h])) =>
                /\ latest[h].gpus = job[h].result.gpus
                /\ latest[h].users = job[h].result.users
          /\ (pc[h] = "sleep" /\ IsErr(latest[h])) => latest[h].error = job[h].exc
    /\ \A h \in HostSet :
          /\ job[h].st # "none" => job[h].host_alias = h
          /\ "main" \in DOMAIN job[h] => job[h].main \in MainOutcomes(h, behaviour[h])
          /\ (job[h].st = "done" /\ "result" \in DOMAIN job[h] /\ job[h].ps.kind # "skipped") =>
                job[h].ps \in PsOutcomes(h, behaviour[h])

\* two hosts have entries, one an error and one data, while both are
\* being queried again at the same time
C1_Witness ==
    /\ DOMAIN latest = {"alpha", "beta"}
    /\ IsErr(latest["alpha"])
    /\ IsOk(latest["beta"])
    /\ job["alpha"].st = "ssh"
    /\ job["beta"].st = "ps"

\* C2: error entry and clean recovery. Every cache entry has exactly the
\* keys of an Ok entry (gpus and users, no error) or of an Err entry (error,
\* no gpus or users), and the entry of a host that has just written is built
\* from its last run alone: an Err entry with that run's error when the run
\* failed, an Ok entry with that run's gpus and users when it succeeded.
C2_ExactlyOneVariant ==
    \A h \in DOMAIN latest :
        /\ DOMAIN latest[h] = OkKeys \/ DOMAIN latest[h] = ErrKeys
        /\ (pc[h] = "sleep" /\ "exc" \in DOMAIN job[h]) =>
              latest[h] = [host_alias |-> h, timestamp |-> latest[h].timestamp,
                           error |-> job[h].exc]
        /\ (pc[h] = "sleep" /\ "result" \in DOMAIN job[h]) =>
              latest[h] = [host_alias |-> h, timestamp |-> latest[h].timestamp,
                           gpus |-> job[h].result.gpus, users |-> job[h].result.users]

\* a successful cycle has just replaced the entry of a timed-out cycle
C2_Witness ==
    \E h \in DOMAIN latest :
        /\ pc[h] = "sleep"
        /\ prevKind[h] = "err"
        /\ IsOk(latest[h])
        /\ latest[h].users # <<>>

C4_QueryCanBegin ==
    \A h \in HostSet : (queue # <<>> /\ Head(queue) = h) => ENABLED Dispatch(h)

\* C5: atomic whole-entry replace. A host's cache entry changes only in the
\* one step in which its poller, its run complete (owner lookup ended or
\* skipped for want of processes), resumes and goes to sleep; the new entry
\* is then the whole entry of that run; no entry is ever removed; and a
\* /metrics read returns the entries as they stand at the read.
C5_AtomicReplace ==
    [][/\ \A h \in HostSet :
            (h \in DOMAIN latest' /\ (h \notin DOMAIN latest \/ latest'[h] # latest[h])) =>
                /\ pc[h] = "await"
                /\ job[h].st = "done"
                /\ pc'[h] = "sleep"
                /\ latest'[h] =
                      IF "exc" \in DOMAIN job[h]
                      THEN [host_alias |-> h, timestamp |-> clock, error |-> job[h].exc]
                      ELSE [host_alias |-> h, timestamp |-> clock,
                            gpus |-> job[h].result.gpus, users |-> job[h].result.users]
                /\ ("result" \in DOMAIN job[h] /\ job[h].result.users # <<>>) =>
                      job[h].ps.kind \in {"timeout", "exit"}
       /\ DOMAIN latest \subseteq DOMAIN latest'
       /\ resp' # resp => resp' = [i \in 1..Len(keyOrder) |-> latest[keyOrder[i]]]]_vars

\* a read has returned the complete previous snapshot of a host, its owners
\* resolved, while the host's next snapshot is in its owner lookup
C5_Witness ==
    \E h \in DOMAIN latest :
        /\ job[h].st = "ps"
        /\ IsOk(latest[h])
        /\ latest[h].users # <<>>
        /\ latest[h].users[1].user = Login(h)
        /\ \E i \in 1..Len(resp) : resp[i] = latest[h]

\* C6: non-blocking read. In every state the /metrics read can be taken,
\* and what it would return has exactly one element for each host that has
\* completed a poll cycle and none for the others; a response returned
\* earlier has at most one element per host.
C6_NonBlockingRead ==
    /\ ENABLED get_metrics
    /\ LET served == [i \in 1..Len(keyOrder) |-> latest[keyOrder[i]]]
       IN  /\ \A h \in HostSet :
                  Cardinality({i \in 1..Len(served) : served[i].host_alias = h}) =
                      IF prevKind[h] # "never" THEN 1 ELSE 0
           /\ Len(served) = Cardinality({h \in HostSet : prevKind[h] # "never"})
    /\ \A i, j \in 1..Len(resp) : resp[i].host_alias = resp[j].host_alias => i = j

\* a read has returned one host's entry alone while the other host, which
\* has no entry yet, is in the middle of its first remote query
C6_Witness ==
    /\ hosts = <<"alpha", "beta">>
    /\ job["beta"].st = "ssh"
    /\ prevKind["beta"] = "never"
    /\ "beta" \notin DOMAIN latest
    /\ "alpha" \in DOMAIN latest
    /\ resp = <<latest["alpha"]>>

\* the hosts of the fair configuration whose main command fails every time
DownHosts == {h \in LiveHosts : LiveConfig.behaviour[h] = "down"}

\* C7: standing, refreshing error entry. A host whose main command fails on
\* every cycle has an Err entry written again and again, for ever; an entry
\* once present is never removed; and the timestamps of the successive
\* entries of a host never decrease.
C7_StandingError ==
    /\ \A h \in DownHosts :
          []<><<pc[h] = "await" /\ pc'[h] = "sleep" /\ h \in DOMAIN latest'
                /\ IsErr(latest'[h])>>_vars
    /\ [][\A h \in LiveHosts :
            h \in DOMAIN latest =>
                (h \in DOMAIN latest' /\ latest'[h].timestamp >= latest[h].timestamp)]_vars

\* the failing host's Err entry has replaced an earlier Err entry, with a
\* later timestamp than the start of the run
C7_Witness ==
    \E h \in DownHosts :
        /\ h \in DOMAIN latest
        /\ pc[h] = "sleep"
        /\ prevKind[h] = "err"
        /\ IsErr(latest[h])
        /\ latest[h].timestamp > 0

\* C8 as stated: the timestamp of an Ok entry is the clock value at which
\* the cycle that wrote it entered Polling.
C8_StampIsPollStart ==
    \A h \in DOMAIN latest :
        (pc[h] = "sleep" /\ IsOk(latest[h])) => latest[h].timestamp = pollStart[h]

\* C8 as amended: the timestamp of an Ok entry is the clock value of the
\* step that writes it, after the run (query and owner lookup) has ended,
\* and so is never earlier than the cycle's start.
C8_StampIsWriteTime ==
    [][\A h \in HostSet :
          (pc[h] = "await" /\ pc'[h] = "sleep" /\ IsOk(latest'[h])) =>
              /\ job[h].st = "done"
              /\ latest'[h].timestamp = clock
              /\ latest'[h].timestamp >= pollStart[h]]_vars

\* an Ok entry whose timestamp is later than its cycle's start
C8_Witness ==
    \E h \in DOMAIN latest :
        /\ pc[h] = "sleep"
        /\ IsOk(latest[h])
        /\ latest[h].timestamp > pollStart[h]

\* the main command timed out, or exited nonzero with nothing but
\* whitespace on its standard output
ExecutorFailed(o) ==
    \/ o.kind = "timeout"
    \/ o.returncode # 0 /\ \A i \in 1..Len(o.stdout) : o.stdout[i] \in {" ", "\n"}

NamesIn(p) ==
    {SplitWs(PsLines(p.stdout)[i])[2] :
        i \in {j \in 1..Len(PsLines(p.stdout)) : Len(SplitWs(PsLines(p.stdout)[j])) >= 2}}

FailedAs(h, tag) ==
    /\ "exc" \in DOMAIN job[h]
    /\ job[h].exc.tag = tag
    /\ pc[h] = "sleep" => IsErr(latest[h]) /\ latest[h].error.tag = tag

\* a process record without its user
Anonymous(u) == [f \in DOMAIN u \ {"user"} |-> u[f]]

\* the finished run of poller h returned the devices and processes that a
\* run whose main command exits with status 0 and the same stdout parses,
\* and the entry written from it is an Ok snapshot of them
ParsedAsZeroExit(h) ==
    LET zero == AfterMain(job[h].host_alias, RunExit(0, job[h].main.stdout, <<>>))
    IN  /\ "result" \in DOMAIN job[h]
        /\ job[h].result.gpus = zero.result.gpus
        /\ Len(job[h].result.users) = Len(zero.result.users)
        /\ \A i \in 1..Len(zero.result.users) :
              Anonymous(job[h].result.users[i]) = Anonymous(zero.result.users[i])
        /\ pc[h] = "sleep" => IsOk(latest[h]) /\ latest[h].gpus = zero.result.gpus

\* C11 as stated: a main command that exits nonzero with non-empty stdout
\* yields an Ok snapshot (fails for a stdout of whitespace only).
C11_NonEmptyStdoutIsOk ==
    \A h \in HostSet :
        (/\ job[h].st = "done"
         /\ job[h].main.kind = "exit"
         /\ job[h].main.returncode # 0
         /\ job[h].main.stdout # <<>>) => "result" \in DOMAIN job[h]

\* C11: soft success versus command error. A main command that exits nonzero
\* with stdout that is non-empty after trimming yields the Ok snapshot a
\* zero-exit run with the same stdout yields; one that exits nonzero with
\* empty or whitespace-only stdout yields an Err snapshot tagged "ssh
\* returned code"; a timeout yields an Err snapshot tagged "ssh timeout".
C11_SoftSuccess ==
    \A h \in HostSet :
        job[h].st = "done" =>
            LET o == job[h].main
            IN  /\ o.kind = "timeout" => FailedAs(h, "ssh timeout")
                /\ (o.kind = "exit" /\ o.returncode # 0 /\ Strip(o.stdout) = <<>>)
                      => FailedAs(h, "ssh returned code")
                /\ (o.kind = "exit" /\ o.returncode # 0 /\ Strip(o.stdout) # <<>>)
                      => ParsedAsZeroExit(h)

\* a partial output of a main command that exited nonzero is in the cache
\* as an Ok snapshot with a device
C11_Witness ==
    \E h \in HostSet :
        /\ pc[h] = "sleep"
        /\ job[h].main.kind = "exit"
        /\ job[h].main.returncode # 0
        /\ IsOk(latest[h])
        /\ latest[h].gpus # <<>>

\* the --servers list when it is given, the configured list otherwise
EffectiveHosts == IF servers # <<>> THEN servers ELSE config_hosts

\* C12: effective host set at startup. Once the startup handler has run, a
\* poller task exists for each host of the effective host list, in its
\* order, and for no other (fails: the handler raises before it creates one).
C12_OnePollerPerHost ==
    phase \in {"serving", "failed"} => hosts = EffectiveHosts

\* the words of line k of the lookup output p
PsWords(p, k) == SplitWs(SplitLines(p.stdout)[k])

\* the lines of the lookup output p that name pid: their first word is the
\* numeral of pid and a second word follows it
LinesOf(p, pid) ==
    {k \in 1..Len(SplitLines(p.stdout)) :
        /\ Len(PsWords(p, k)) >= 2
        /\ IsInt(<<PsWords(p, k)[1]>>)
        /\ IntOf(<<PsWords(p, k)[1]>>) = pid}

\* the username on the last line that names pid, "unknown" without one
LastOwner(p, pid) ==
    IF LinesOf(p, pid) = {} THEN "unknown"
    ELSE PsWords(p, CHOOSE k \in LinesOf(p, pid) : \A m \in LinesOf(p, pid) : m <= k)[2]

\* the owner lookup of poller h's finished run returned output
LookupReturnedOutput(h) ==
    /\ job[h].st = "done"
    /\ "result" \in DOMAIN job[h]
    /\ job[h].ps.kind = "exit"
    /\ Strip(job[h].ps.stdout) # <<>>

\* every line of two or more words of the lookup output p starts with a numeral
PidsAreNumerals(p) ==
    \A k \in 1..Len(SplitLines(p.stdout)) :
        Len(PsWords(p, k)) >= 2 => IsInt(<<PsWords(p, k)[1]>>)

\* every process record of poller h's finished run, and of the entry written
\* from it, has the last owner the lookup output gives its pid
OwnersMapped(h) ==
    /\ \A i \in 1..Len(job[h].result.users) :
          job[h].result.users[i].user = LastOwner(job[h].ps, job[h].result.users[i].pid)
    /\ pc[h] = "sleep" => IsOk(latest[h]) /\ latest[h].users = job[h].result.users

\* C13 as stated: whenever the owner lookup returned output, every process
\* record has the username of the last output line naming its pid, or
\* "unknown" (fails when the lookup exits nonzero, and when a line of two
\* words starts with a word that is no integer).
C13_MappedWheneverOutput ==
    \A h \in HostSet : LookupReturnedOutput(h) => OwnersMapped(h)

\* C13: owner mapping. When the owner lookup exits with status 0, returned
\* output, and every output line of two or more words starts with an
\* integer, every process record's user is the second word of the last such
\* line whose first word is the record's pid, and "unknown" when no such
\* line has that pid.
C13_OwnerMapping ==
    \A h \in HostSet :
        (/\ LookupReturnedOutput(h)
         /\ job[h].ps.returncode = 0
         /\ PidsAreNumerals(job[h].ps)) => OwnersMapped(h)

\* a pid listed twice got the user of its last line, beside another pid
\* that got its own
C13_Witness ==
    \E h \in HostSet :
        /\ pc[h] = "sleep"
        /\ LookupReturnedOutput(h)
        /\ job[h].ps.returncode = 0
        /\ job[h].ps.stdout = JoinLines(<<PsAlice, PsRoot, PsBob>>)
        /\ latest[h].users[1].user = "root"
        /\ latest[h].users[2].user = "bob"

\* poller h's run has finished with a snapshot
HasSnapshot(h) == job[h].st = "done" /\ "result" \in DOMAIN job[h]

\* poller h's run has just returned a snapshot to the awaiting task
JustReturned(h) == HasSnapshot(h) /\ pc[h] = "await"

\* poller h has written the snapshot of its finished run
Written(h) == HasSnapshot(h) /\ pc[h] = "sleep"

\* the raw text the parser was given in poller h's finished run
RawText(h) == Strip(job[h].main.stdout)

\* the lines of the two sections of the raw text
Sections(text) == ScanLines(NonBlankLines(text), 1, FALSE, <<>>, <<>>)

\* a process line of four or more fields with an integer pid and a memory
\* field that is an integer, empty or "[Not Supported]"
WellFormedProc(ln) ==
    /\ Len(Fields(ln)) >= 4
    /\ IsInt(Fields(ln)[2])
    /\ MemFieldOk(Fields(ln)[4])

\* every process record of users refers to a device record of gpus by its
\* index and carries that record's memory size
RefersInto(users, gpus) ==
    \A i \in 1..Len(users) :
        \E k \in 1..Len(gpus) :
            /\ gpus[k].index = users[i].gpu_id
            /\ gpus[k].memory_total_mib = users[i].gpu_memory_total_mib

\* C14: referential integrity of process records. In every snapshot each
\* process record's gpu_id is the index of a device record of the same
\* snapshot whose memory_total_mib is the record's gpu_memory_total_mib, and
\* the snapshot has one process record per well-formed process line whose
\* bus id is the bus id of one of its device records: a line of a bus id no
\* device record has is dropped.
C14_ReferentialIntegrity ==
    \A h \in HostSet :
        /\ JustReturned(h) =>
              LET r == job[h].result
                  pl == Sections(RawText(h)).process_lines
              IN  /\ RefersInto(r.users, r.gpus)
                  /\ Len(r.users) =
                        Cardinality({k \in 1..Len(pl) :
                            /\ WellFormedProc(pl[k])
                            /\ \E g \in 1..Len(r.gpus) : r.gpus[g].bus_id = Fields(pl[k])[1]})
        /\ Written(h) =>
              /\ IsOk(latest[h])
              /\ RefersInto(latest[h].users, latest[h].gpus)
              /\ Len(latest[h].users) = Len(job[h].result.users)

\* a snapshot in the cache kept the process of a known bus id and dropped
\* the one of an unknown bus id
C14_Witness ==
    \E h \in HostSet :
        /\ pc[h] = "sleep"
        /\ HasSnapshot(h)
        /\ job[h].main.stdout = JoinLines(<<DevGood, Separator, ProcUnknownBus, ProcGood>>)
        /\ Len(latest[h].users) = 1
        /\ latest[h].users[1].gpu_id = latest[h].gpus[1].index

\* the process lines of the raw text that yield a record in a snapshot with
\* the device records gpus, in line order
Surviving(text, gpus) ==
    SelectSeq(Sections(text).process_lines,
              LAMBDA ln : /\ WellFormedProc(ln)
                          /\ \E g \in 1..Len(gpus) : gpus[g].bus_id = Fields(ln)[1])

\* the positions in gpus of the device records of bus id bus
Carrying(gpus, bus) == {k \in 1..Len(gpus) : gpus[k].bus_id = bus}

FirstOf(S) == CHOOSE k \in S : \A m \in S : k <= m

LastOf(S) == CHOOSE k \in S : \A m \in S : m <= k

\* process record u is attributed to device record g
AttributedTo(u, g) ==
    u.gpu_id = g.index /\ u.gpu_memory_total_mib = g.memory_total_mib

\* C15 as stated: a process line is attributed to the first device record
\* that carries its bus id (fails: the last one is taken).
C15_FirstWins ==
    \A h \in HostSet :
        HasSnapshot(h) =>
            LET r == job[h].result
                sl == Surviving(RawText(h), r.gpus)
            IN  \A i \in 1..Len(r.users) :
                    AttributedTo(r.users[i],
                                 r.gpus[FirstOf(Carrying(r.gpus, Fields(sl[i])[1]))])

\* C15: last record wins on a repeated bus id. When two or more surviving
\* device lines carry the same bus id, a process line of that bus id is
\* attributed to the last such device record in line order: its gpu_id and
\* gpu_memory_total_mib are copied from the last one.
C15_LastWins ==
    \A h \in HostSet :
        /\ JustReturned(h) =>
              LET r == job[h].result
                  sl == Surviving(RawText(h), r.gpus)
              IN  /\ Len(sl) = Len(r.users)
                  /\ \A i \in 1..Len(r.users) :
                        AttributedTo(r.users[i],
                                     r.gpus[LastOf(Carrying(r.gpus, Fields(sl[i])[1]))])
        /\ Written(h) =>
              /\ IsOk(latest[h])
              /\ latest[h].gpus = job[h].result.gpus
              /\ \A i \in 1..Len(job[h].result.users) :
                    Anonymous(latest[h].users[i]) = Anonymous(job[h].result.users[i])

\* two device lines of one bus id and a process line of that bus id: the
\* record in the cache points at the second device
C15_Witness ==
    \E h \in HostSet :
        /\ pc[h] = "sleep"
        /\ HasSnapshot(h)
        /\ job[h].main.stdout = JoinLines(<<DevGood, DevTwin, Separator, ProcGood>>)
        /\ Len(latest[h].gpus) = 2
        /\ Len(latest[h].users) = 1
        /\ AttributedTo(latest[h].users[1], latest[h].gpus[2])
        /\ ~AttributedTo(latest[h].users[1], latest[h].gpus[1])

\* C16: bus id uniqueness. In every Ok snapshot stored in the cache no two
\* device records have the same bus id (fails: a repeated bus id of the
\* device section is kept in both records).
C16_UniqueBusIds ==
    \A h \in DOMAIN latest :
        IsOk(latest[h]) =>
            \A i, k \in 1..Len(latest[h].gpus) :
                i # k => latest[h].gpus[i].bus_id # latest[h].gpus[k].bus_id

\* C17: positive pids. Every process record of every snapshot stored in
\* the cache has pid > 0 and memory_used_mib >= 0 (fails: a pid of 0 and a
\* negative memory figure are integers and are taken as they are).
C17_PositivePids ==
    \A h \in DOMAIN latest :
        IsOk(latest[h]) =>
            \A i \in 1..Len(latest[h].users) :
                latest[h].users[i].pid > 0 /\ latest[h].users[i].memory_used_mib >= 0

\* the lines of the text, trimmed, without the blank ones
Trimmed(text) ==
    LET raw == SplitOn(text, "\n")
    IN  SelectSeq([k \in 1..Len(raw) |-> Strip(raw[k])], LAMBDA ln : ln # <<>>)

\* the position of the first line equal to '---', 0 without one
FirstSeparator(lines) ==
    IF \E k \in 1..Len(lines) : lines[k] = <<"---">>
    THEN CHOOSE k \in 1..Len(lines) :
            lines[k] = <<"---">> /\ \A m \in 1..(k - 1) : lines[m] # <<"---">>
    ELSE 0

\* the lines before the first separator, all lines without a separator
DeviceSection(lines) ==
    IF FirstSeparator(lines) = 0 THEN lines
    ELSE SubSeq(lines, 1, FirstSeparator(lines) - 1)

\* the lines after the first separator that are no separator themselves
ProcessSection(lines) ==
    IF FirstSeparator(lines) = 0 THEN <<>>
    ELSE SelectSeq(SubSeq(lines, FirstSeparator(lines) + 1, Len(lines)),
                   LAMBDA ln : ln # <<"---">>)

\* C18: separator partition. After trimming and dropping blank lines, the
\* device records of a snapshot are those of the lines before the first
\* line equal to '---' and its process records those of the later lines
\* that are not '---' themselves; a separator line yields no record; a text
\* without a separator line has all its lines in the device section and an
\* empty process list.
C18_SeparatorPartition ==
    \A h \in HostSet :
        /\ JustReturned(h) =>
              LET lines == Trimmed(RawText(h))
                  r == job[h].result
                  users == ParseUsers(r.gpus, ProcessSection(lines))
              IN  /\ r.gpus = ParseGpus(DeviceSection(lines))
                  /\ Len(r.users) = Len(users)
                  /\ \A i \in 1..Len(users) : Anonymous(r.users[i]) = Anonymous(users[i])
                  /\ FirstSeparator(lines) = 0 => r.users = <<>>
        /\ Written(h) =>
              /\ IsOk(latest[h])
              /\ latest[h].gpus = job[h].result.gpus
              /\ Len(latest[h].users) = Len(job[h].result.users)

\* a padded separator after a blank line split a device line from two
\* process lines, of which the well-formed one is in the cache
C18_Witness ==
    \E h \in HostSet :
        /\ pc[h] = "sleep"
        /\ HasSnapshot(h)
        /\ \E p \in {ProcShort, ProcBadPid} :
              job[h].main.stdout =
                  JoinLines(<<DevGood, BlankLine, <<" ", "---", " ">>, p, ProcGood>>)
        /\ Len(latest[h].gpus) = 1
        /\ Len(latest[h].users) = 1

\* the raw lines of the text
RawLines(text) == SplitOn(text, "\n")

\* the text of the raw lines ls without line k
WithoutLine(ls, k) ==
    JoinLines([i \in 1..(Len(ls) - 1) |-> IF i < k THEN ls[i] ELSE ls[i + 1]])

\* line k of the raw lines ls lies before every separator line
InDeviceSection(ls, k) ==
    \A m \in 1..k : Strip(ls[m]) # <<"---">>

\* line k of the raw lines ls lies after a separator line and is none itself
InProcessSection(ls, k) ==
    /\ Strip(ls[k]) # <<"---">>
    /\ \E m \in 1..(k - 1) : Strip(ls[m]) = <<"---">>

\* the comma-separated fields of a line, trimmed
Cells(ln) ==
    LET pieces == SplitOn(Strip(ln), ",")
    IN  [i \in 1..Len(pieces) |-> Strip(pieces[i])]

\* a device line of fewer than six fields or with a numeric field that is
\* no integer
MalformedDevice(ln) ==
    \/ Len(Cells(ln)) < 6
    \/ \E i \in {1, 4, 5, 6} : ~IsInt(Cells(ln)[i])

\* the memory field that stands for no figure
NoFigure(f) == f = <<>> \/ f = <<"[Not Supported]">>

\* a process line of fewer than four fields or with a pid or memory field
\* that is no integer
MalformedProcess(ln) ==
    \/ Len(Cells(ln)) < 4
    \/ ~IsInt(Cells(ln)[2])
    \/ ~NoFigure(Cells(ln)[4]) /\ ~IsInt(Cells(ln)[4])

\* line k of the raw lines ls is a malformed line of its section
Malformed(ls, k) ==
    \/ InDeviceSection(ls, k) /\ MalformedDevice(ls[k])
    \/ InProcessSection(ls, k) /\ MalformedProcess(ls[k])

\* two results hold the same records in the same order
SameRecords(r1, r2) ==
    /\ r1.gpus = r2.gpus
    /\ Len(r1.users) = Len(r2.users)
    /\ \A i \in 1..Len(r1.users) : Anonymous(r1.users[i]) = Anonymous(r2.users[i])

\* the process lines of the text that are well formed and whose bus id a
\* device record of gpus has, in line order
Kept(text, gpus) ==
    SelectSeq(ProcessSection(Trimmed(text)),
              LAMBDA ln : /\ ~MalformedProcess(ln)
                          /\ \E g \in 1..Len(gpus) : gpus[g].bus_id = Cells(ln)[1])

\* C19: line-level drop without collateral loss. A malformed device line
\* (fewer than 6 fields, or a non-integer numeric field) and a malformed
\* process line (fewer than 4 fields, or a non-integer pid or memory field)
\* contribute no record and leave the records of the other lines as they
\* are, in their order: the snapshot is the one parsed from the text without
\* that line. A memory field '[Not Supported]' or empty drops nothing: the
\* line yields a record with memory_used_mib 0.
C19_LineLevelDrop ==
    \A h \in HostSet :
        /\ JustReturned(h) =>
              LET ls == RawLines(RawText(h))
                  r == job[h].result
                  kept == Kept(RawText(h), r.gpus)
              IN  /\ \A k \in 1..Len(ls) :
                        Malformed(ls, k) =>
                            SameRecords(r, parse_nvidia_smi_output(Strip(WithoutLine(ls, k))))
                  /\ Len(r.users) = Len(kept)
                  /\ \A i \in 1..Len(kept) :
                        NoFigure(Cells(kept[i])[4]) => r.users[i].memory_used_mib = 0
        /\ Written(h) =>
              /\ IsOk(latest[h])
              /\ SameRecords(job[h].result,
                             [gpus |-> latest[h].gpus, users |-> latest[h].users])

\* a malformed device line before a well-formed one and a process line
\* without a memory figure: the device and the process are in the cache
C19_Witness ==
    \E h \in HostSet :
        /\ pc[h] = "sleep"
        /\ HasSnapshot(h)
        /\ job[h].main.stdout = JoinLines(<<DevBadInt, DevOther, Separator, ProcNoMem>>)
        /\ Len(latest[h].gpus) = 1
        /\ Len(latest[h].users) = 1
        /\ latest[h].users[1].memory_used_mib = 0

\* device record g holds the six fields of device line ln, the integer
\* fields as integers
RoundTrips(g, ln) ==
    /\ g.index = IntOf(Cells(ln)[1])
    /\ g.name = Cells(ln)[2]
    /\ g.bus_id = Cells(ln)[3]
    /\ g.utilization_gpu = IntOf(Cells(ln)[4])
    /\ g.memory_total_mib = IntOf(Cells(ln)[5])
    /\ g.memory_used_mib = IntOf(Cells(ln)[6])

\* C20: lossless, order-preserving device parsing. When every line of the
\* device section is well formed, the snapshot has exactly one device
\* record per line, in line order, whose index, name, bus_id, utilization,
\* memory_total and memory_used are fields 1 to 6 of that line after
\* trimming and integer coercion.
C20_LosslessDevices ==
    \A h \in HostSet :
        /\ JustReturned(h) =>
              LET dl == DeviceSection(Trimmed(RawText(h)))
                  r == job[h].result
              IN  (\A k \in 1..Len(dl) : ~MalformedDevice(dl[k])) =>
                      /\ Len(r.gpus) = Len(dl)
                      /\ \A k \in 1..Len(dl) : RoundTrips(r.gpus[k], dl[k])
        /\ Written(h) => IsOk(latest[h]) /\ latest[h].gpus = job[h].result.gpus

\* three well-formed device lines, not in the order of their indices, are
\* three device records of the cache in line order
C20_Witness ==
    \E h \in HostSet :
        /\ pc[h] = "sleep"
        /\ HasSnapshot(h)
        /\ job[h].main.stdout = JoinLines(<<DevTwin, DevGood, DevOther, Separator>>)
        /\ Len(latest[h].gpus) = 3
        /\ latest[h].gpus[1].index = 1
        /\ latest[h].gpus[2].index = 0
        /\ latest[h].gpus[3].bus_id = <<BusB>>

\* the main command came back with usable output: it exited, with status 0
\* or with text left once the whitespace around it is removed
QuerySucceeded(o) ==
    /\ o.kind = "exit"
    /\ o.returncode = 0 \/ \E k \in 1..Len(o.stdout) : o.stdout[k] \notin {" ", "\n"}

\* the run of host h holds a parsed process list with a record in it
HasProcesses(h) == "result" \in DOMAIN job[h] /\ job[h].result.users # <<>>

\* C21: remote calls per poll cycle. A cycle never starts more than one main
\* query nor more than one owner lookup, and a finished run has started
\* exactly one main query; it has started the owner lookup if and only if
\* the main query succeeded and the parsed process list is non-empty; the
\* main query is started only by a cycle that has started none, and the
\* owner lookup only by the step in which the main query comes back.
C21_RemoteCalls ==
    /\ [](\A h \in HostSet :
            /\ spawned[h].main <= 1
            /\ spawned[h].ps <= 1
            /\ job[h].st = "done" =>
                  /\ spawned[h].main = 1
                  /\ spawned[h].ps = 1 <=> (QuerySucceeded(job[h].main) /\ HasProcesses(h)))
    /\ [][\A h \in HostSet :
            /\ spawned'[h].main > spawned[h].main =>
                  (spawned[h].main = 0 /\ job[h].st = "queued")
            /\ spawned'[h].ps > spawned[h].ps =>
                  /\ spawned[h].main = 1
                  /\ job[h].st = "ssh"
                  /\ "main" \notin DOMAIN job[h]
                  /\ "main" \in DOMAIN job'[h]]_vars

\* one host has finished a cycle with both commands, and another a cycle
\* whose main query failed and started no owner lookup
C21_Witness ==
    \E h, g \in HostSet :
        /\ pc[h] = "sleep" /\ job[h].st = "done"
        /\ spawned[h] = [main |-> 1, ps |-> 1]
        /\ job[h].ps.kind # "skipped"
        /\ pc[g] = "sleep" /\ job[g].st = "done"
        /\ spawned[g] = [main |-> 1, ps |-> 0]

====
